---- MODULE Spec2Model ----
(***************************************************************************)
(* Bashins Budget (src/script.js): the in-memory ledger `state`, the       *)
(* module constant DEFAULT it is copied from, the localStorage slot under  *)
(* LS_KEY, the unsaved-changes flag with its reminder timer, and the       *)
(* handlers that act on them.                                              *)
(*                                                                         *)
(* Amounts are JavaScript numbers with at most two decimals after          *)
(* toNumber; they are held here as integers in hundredths (cents), and raw *)
(* numeric input as integers in thousandths.  Binary floating-point        *)
(* representation error is outside this model.  Category names are written *)
(* without diacritics.                                                     *)
(***************************************************************************)
EXTENDS Integers, Sequences, FiniteSets, TLC

\* ----- bounds of the model -----
\* add handlers are offered while state and DEFAULT together hold fewer records
MaxRecords == 2
\* the clock Date.now() runs over 0..MaxTime
MaxTime == 1
\* Math.random() in generateId yields one of MaxRand suffixes
MaxRand == 1
\* budget rows the user edits: the first MaxBudgetRows rows of the table
MaxBudgetRows == 1
\* writes to localStorage that fail (throw, or are not kept) in one session
MaxFailures == 1

\* ----- small helpers -----
Abs(n) == IF n < 0 THEN -n ELSE n

RECURSIVE FilterSeq(_, _)
\* array.filter(r => r.id !== dropId)
FilterSeq(s, dropId) ==
    IF s = <<>> THEN <<>>
    ELSE IF Head(s).id = dropId THEN FilterSeq(Tail(s), dropId)
         ELSE <<Head(s)>> \o FilterSeq(Tail(s), dropId)

\* ----- constants of the program -----
LS_KEY == "bashinsBudgetData_v1"

BuiltInExpenseCategories ==
    << "Hyra", "Mat", "Egenvard", "Transport", "Noje", "Abonnemang",
       "Klader", "Presenter", "Resor", "Halsa & traning", "Sparande", "Ovrigt" >>

BuiltInIncomeCategories == << "CSN", "Jobb", "Extra" >>

\* the object literal DEFAULT as written in the source
DefaultLiteral ==
    [ expenseCategories |-> BuiltInExpenseCategories,
      incomeCategories  |-> BuiltInIncomeCategories,
      budgets           |-> <<>>,
      expenses          |-> <<>>,
      incomes           |-> <<>> ]

FieldNames == { "expenseCategories", "incomeCategories", "budgets", "expenses", "incomes" }

\* ----- numbers -----
\* Raw input of a form field: [k |-> "num", m |-> thousandths], [k |-> "empty"] for ""
\* and [k |-> "text"] for a string Number() turns into NaN.
NumInput(m) == [k |-> "num", m |-> m]
EmptyInput == [k |-> "empty", m |-> 0]
TextInput == [k |-> "text", m |-> 0]

\* Math.round(num * 100) / 100, in cents: Math.round rounds halves towards +Infinity
RoundToCents(m) == (m + 5) \div 10

toNumber(value) ==
    IF value.k = "text" THEN 0          \* isNaN(num) ? 0
    ELSE IF value.k = "empty" THEN 0    \* Number("") = 0
    ELSE RoundToCents(value.m)

\* ----- JSON text -----
\* A number in JSON text: sign, integer digits and the fraction digits without
\* trailing zeros (12.5 is written "12.5", 3 is written "3").
FracDigits(r) ==
    IF r = 0 THEN <<>>
    ELSE IF r % 10 = 0 THEN << r \div 10 >>
    ELSE << r \div 10, r % 10 >>

NumberToText(c) ==
    [ neg |-> c < 0, int |-> Abs(c) \div 100, frac |-> FracDigits(Abs(c) % 100) ]

\* variant: a single fraction digit read as hundredths
FracValueAsHundredths(d) ==
    IF Len(d) = 0 THEN 0
    ELSE IF Len(d) = 1 THEN d[1]
    ELSE d[1] * 10 + d[2]

FracValue(d) ==
    IF Len(d) = 0 THEN 0
    ELSE IF Len(d) = 1 THEN d[1] * 10
    ELSE d[1] * 10 + d[2]

TextToNumber(t) ==
    (IF t.neg THEN -1 ELSE 1) * (t.int * 100 + FracValue(t.frac))

ExpenseToText(e) ==
    [ id |-> e.id, category |-> e.category, amount |-> NumberToText(e.amount),
      desc |-> e.desc, date |-> e.date ]

TextToExpense(t) ==
    [ id |-> t.id, category |-> t.category, amount |-> TextToNumber(t.amount),
      desc |-> t.desc, date |-> t.date ]

IncomeToText(i) ==
    [ id |-> i.id, source |-> i.source, amount |-> NumberToText(i.amount), date |-> i.date ]

TextToIncome(t) ==
    [ id |-> t.id, source |-> t.source, amount |-> TextToNumber(t.amount), date |-> t.date ]

BudgetToText(b) == << b[1], NumberToText(b[2]) >>

TextToBudget(t) == << t[1], TextToNumber(t[2]) >>

\* A value of a top-level field in a stored document; null marks JSON null.
JVal(v) == [ null |-> FALSE, v |-> v ]
JNull == [ null |-> TRUE, v |-> <<>> ]

EmptyDoc == [ f \in {} |-> JNull ]

\* What the slot can hold: nothing, or a text.  A text is malformed (JSON.parse
\* throws), a scalar (parses to null, a number or a string) or an object.
NoItem == [ kind |-> "absent", doc |-> EmptyDoc ]
MalformedText == [ kind |-> "malformed", doc |-> EmptyDoc ]
ScalarText == [ kind |-> "scalar", doc |-> EmptyDoc ]
ObjectText(doc) == [ kind |-> "object", doc |-> doc ]

FieldToText(f, v) ==
    CASE f = "budgets"  -> [ i \in 1..Len(v) |-> BudgetToText(v[i]) ]
      [] f = "expenses" -> [ i \in 1..Len(v) |-> ExpenseToText(v[i]) ]
      [] f = "incomes"  -> [ i \in 1..Len(v) |-> IncomeToText(v[i]) ]
      [] OTHER          -> v

TextToField(f, t) ==
    CASE f = "budgets"  -> [ i \in 1..Len(t) |-> TextToBudget(t[i]) ]
      [] f = "expenses" -> [ i \in 1..Len(t) |-> TextToExpense(t[i]) ]
      [] f = "incomes"  -> [ i \in 1..Len(t) |-> TextToIncome(t[i]) ]
      [] OTHER          -> t

\* JSON.stringify(state): all five own properties of the state object
Stringify(st) == ObjectText([ f \in FieldNames |-> JVal(FieldToText(f, st[f])) ])

\* parsed.f || fallback: the parsed value when the property exists and is truthy
Truthy(doc, f) == f \in DOMAIN doc /\ ~doc[f].null


\* ----- state -----
VARIABLES
    DEFAULT,            \* the arrays and the object the constant DEFAULT refers to
    state,              \* the global ledger
    shared,             \* fields of state that are the very objects DEFAULT refers to
    hasUnsavedChanges,
    reminderTimer,      \* 0 for null, else the handle setTimeout returned
    timers,             \* handles of the timeouts that are pending in the browser
    localStorage,       \* the content of the slot under LS_KEY
    failures,           \* writes to the slot that have failed so far
    now,                \* the clock when it was last read
    last                \* the handler that ran last and how it ended

vars == << DEFAULT, state, shared, hasUnsavedChanges, reminderTimer, timers,
           localStorage, failures, now, last >>

ledgerVars == << DEFAULT, state, shared >>

statusVars == << hasUnsavedChanges, reminderTimer, timers >>

\* the flag and the timer, as one value the helpers below transform
UI == [ hasUnsavedChanges |-> hasUnsavedChanges,
        reminderTimer     |-> reminderTimer,
        timers            |-> timers ]

SetUI(u) ==
    /\ hasUnsavedChanges' = u.hasUnsavedChanges
    /\ reminderTimer' = u.reminderTimer
    /\ timers' = u.timers

Done(op, outcome, saved, raised) ==
    last' = [ op |-> op, outcome |-> outcome, saved |-> saved, raised |-> raised ]

BoolText(b) == IF b THEN "true" ELSE "false"

\* ----- reminder helpers -----
clearReminderTimer(u) ==
    IF u.reminderTimer # 0
    THEN [ u EXCEPT !.timers = @ \ { u.reminderTimer }, !.reminderTimer = 0 ]
    ELSE u

\* setTimeout returns a handle no pending timeout has
NewTimer(u) ==
    CHOOSE i \in 1..(Cardinality(u.timers) + 2) : i \notin u.timers /\ i # u.reminderTimer

\* variant: the pending timeout is cleared and no new one is set
startReminderTimerClearsOnly(u) == clearReminderTimer(u)

startReminderTimer(u) ==
    LET c == clearReminderTimer(u)
        t == NewTimer(c)
    IN  [ c EXCEPT !.reminderTimer = t, !.timers = @ \cup { t } ]

markUnsavedChanges(u) == startReminderTimer([ u EXCEPT !.hasUnsavedChanges = TRUE ])

\* variant: the flag is cleared and the pending timeout is left alone
markSavedChangesKeepsTimer(u) == [ u EXCEPT !.hasUnsavedChanges = FALSE ]

markSavedChanges(u) == clearReminderTimer([ u EXCEPT !.hasUnsavedChanges = FALSE ])

\* ----- localStorage -----
\* How the browser treats one setItem: "stored" keeps the text, "quota" throws and
\* keeps the old content, "lost" returns normally and keeps the old content.
StorageOutcomes == { "stored", "quota", "lost" }

setItem(slot, text, storage) == IF storage = "stored" THEN text ELSE slot

\* the try block of saveState; raised tells that it threw
\* variant: true as soon as setItem has returned, without reading the slot back
saveStateTryUnverified(st, u, slot, storage) ==
    LET stateString == Stringify(st)
        written == setItem(slot, stateString, storage)
    IN  IF storage = "quota"
        THEN [ ret |-> FALSE, slot |-> slot, u |-> u, raised |-> TRUE ]
        ELSE [ ret |-> TRUE, slot |-> written, u |-> markSavedChanges(u), raised |-> FALSE ]

saveStateTry(st, u, slot, storage) ==
    LET stateString == Stringify(st)
        written == setItem(slot, stateString, storage)
    IN  IF stateString.doc = EmptyDoc
        THEN [ ret |-> FALSE, slot |-> slot, u |-> u, raised |-> FALSE ]
        ELSE IF storage = "quota"
        THEN [ ret |-> FALSE, slot |-> slot, u |-> u, raised |-> TRUE ]
        ELSE IF written = stateString
        THEN [ ret |-> TRUE, slot |-> written, u |-> markSavedChanges(u), raised |-> FALSE ]
        ELSE [ ret |-> FALSE, slot |-> written, u |-> u, raised |-> FALSE ]

\* saveState: the catch clause turns whatever the try block threw into false
saveState(st, u, slot, storage) ==
    LET r == saveStateTry(st, u, slot, storage)
    IN  IF r.raised THEN [ r EXCEPT !.ret = FALSE, !.raised = FALSE ] ELSE r

\* state = { ...DEFAULT }: a new object whose five properties are DEFAULT's own objects
SpreadDefault(D) == [ state |-> D, shared |-> FieldNames ]

\* variant: every fallback an empty literal (parsed.f || [])
FieldDefaultEmpty(f, D) == <<>>

\* variant: every fallback taken from DEFAULT (parsed.f || DEFAULT.f)
FieldDefaultFromDEFAULT(f, D) == D[f]

FieldDefault(f, D) ==
    CASE f = "expenseCategories" -> D.expenseCategories
      [] f = "incomeCategories"  -> D.incomeCategories
      [] OTHER                   -> <<>>

\* parsed.f || fallback
FieldOrDefault(doc, f, D) ==
    IF Truthy(doc, f) THEN TextToField(f, doc[f].v) ELSE FieldDefault(f, D)

\* loadState: ret is its return value
loadState(slot, D) ==
    IF slot.kind = "object"
    THEN [ ret    |-> TRUE,
           state  |-> [ f \in FieldNames |-> FieldOrDefault(slot.doc, f, D) ],
           shared |-> { f \in { "expenseCategories", "incomeCategories" } :
                            ~Truthy(slot.doc, f) } ]
    ELSE \* nothing stored, a text JSON.parse rejects, or a parsed non-object
         [ ret |-> FALSE, state |-> SpreadDefault(D).state, shared |-> SpreadDefault(D).shared ]

\* ----- what the slot holds when the page is opened -----
\* an expense as an earlier session stored it
StoredExpense ==
    [ id |-> << 0, 1 >>, category |-> "Mat", amount |-> 4950, desc |-> "kaffe", date |-> 0 ]

\* the income sources an edited document lists instead of the built-in ones
StoredIncomeCategories == << "Lon", "CSN" >>

\* the budget that document holds for "Mat": 30.00, less than the stored expense
StoredBudgets == << << "Mat", 3000 >> >>

\* a document with expenses, budgets and incomeCategories, with incomes: null and
\* without expenseCategories
PartialDoc ==
    [ f \in { "expenses", "budgets", "incomes", "incomeCategories" } |->
        CASE f = "expenses"         -> JVal(FieldToText(f, << StoredExpense >>))
          [] f = "budgets"          -> JVal(FieldToText(f, StoredBudgets))
          [] f = "incomeCategories" -> JVal(FieldToText(f, StoredIncomeCategories))
          [] OTHER                  -> JNull ]

InitialSlots == { NoItem, MalformedText, ScalarText, ObjectText(PartialDoc) }

\* ----- initial state: the script has run and initializeApp has returned -----
Init ==
    /\ DEFAULT = DefaultLiteral
    /\ state = SpreadDefault(DefaultLiteral).state
    /\ shared = SpreadDefault(DefaultLiteral).shared
    /\ hasUnsavedChanges = FALSE
    /\ reminderTimer = 0
    /\ timers = {}
    /\ localStorage \in InitialSlots
    /\ failures = 0
    /\ now = 0
    /\ last = [ op |-> "initializeApp", outcome |-> "ok", saved |-> "none", raised |-> FALSE ]


\* ----- inputs -----
\* String.prototype.trim on the descriptions the forms below use
Trim(s) == IF s = "  " THEN "" ELSE s

\* what the user has typed when "add expense" is pressed
ExpenseForms ==
    { [ category |-> "Hyra", desc |-> "  ",    amount |-> NumInput(120555) ],
      [ category |-> "",     desc |-> "kaffe", amount |-> NumInput(120555) ],
      [ category |-> "Mat",  desc |-> "",      amount |-> NumInput(4) ],
      [ category |-> "Mat",  desc |-> "",      amount |-> NumInput(-5000) ],
      [ category |-> "Hyra", desc |-> "",      amount |-> TextInput ] }

\* what the user has typed when "add income" is pressed
IncomeForms ==
    { [ source |-> "CSN",  amount |-> NumInput(3000000) ],
      [ source |-> "",     amount |-> NumInput(3000000) ],
      [ source |-> "Jobb", amount |-> EmptyInput ],
      [ source |-> "Jobb", amount |-> NumInput(-5000) ] }

\* what the user types into a budget cell
BudgetInputs == { EmptyInput, NumInput(250500) }

\* ids a delete can be asked for: every id generateId can yield
Ids == (0..MaxTime) \X (1..MaxRand)

\* ----- handlers -----
generateId(time, rnd) == << time, rnd >>

\* the outcomes the browser may give the next setItem
Outcomes == IF failures < MaxFailures THEN StorageOutcomes ELSE { "stored" }

Fault(storage) == failures' = IF storage = "stored" THEN failures ELSE failures + 1

\* new Date() / Date.now(): the clock has not run backwards since it was last read
ClockReadings == { t \in now..(now + 1) : t <= MaxTime }

\* onStart shows the dashboard and renders; nothing of the state above changes
onStart == UNCHANGED vars

onLoad ==
    LET r == loadState(localStorage, DEFAULT)
    IN  /\ state' = r.state
        /\ shared' = r.shared
        /\ Done("onLoad", IF r.ret THEN "found" ELSE "notfound", "none", FALSE)
        /\ UNCHANGED << DEFAULT, statusVars, localStorage, failures, now >>

\* variant: array.unshift(record)
PushFront(f, record) ==
    /\ state' = [ state EXCEPT ![f] = << record >> \o @ ]
    /\ DEFAULT' = IF f \in shared THEN [ DEFAULT EXCEPT ![f] = << record >> \o @ ] ELSE DEFAULT
    /\ UNCHANGED shared

\* array.push(record) on state[f]: the array is changed in place, so DEFAULT sees
\* the record too while state[f] is DEFAULT's own array
Push(f, record) ==
    /\ state' = [ state EXCEPT ![f] = Append(@, record) ]
    /\ DEFAULT' = IF f \in shared THEN [ DEFAULT EXCEPT ![f] = Append(@, record) ] ELSE DEFAULT
    /\ UNCHANGED shared

\* variant: state[f].splice(state[f].findIndex(r => r.id === id), 1), which removes
\* the first match in place and, when nothing matches (index -1), the last record
FilterSplice(f, id) ==
    LET s == state[f]
        hits == { i \in 1..Len(s) : s[i].id = id }
        at == IF hits = {} THEN Len(s) ELSE CHOOSE i \in hits : \A j \in hits : i <= j
        r == [ i \in 1..(Len(s) - (IF Len(s) = 0 THEN 0 ELSE 1)) |->
                 IF i < at THEN s[i] ELSE s[i + 1] ]
    IN  /\ state' = [ state EXCEPT ![f] = r ]
        /\ DEFAULT' = IF f \in shared THEN [ DEFAULT EXCEPT ![f] = r ] ELSE DEFAULT
        /\ UNCHANGED shared

\* state[f] = state[f].filter(...): state gets a new array, DEFAULT keeps the old one
Filter(f, id) ==
    /\ state' = [ state EXCEPT ![f] = FilterSeq(@, id) ]
    /\ shared' = shared \ { f }
    /\ UNCHANGED DEFAULT

\* the tail the four add and delete handlers share: saveState, and on success
\* markUnsavedChanges
AutoSave(op, storage) ==
    LET s == saveState(state', UI, localStorage, storage)
    IN  /\ localStorage' = s.slot
        /\ SetUI(IF s.ret THEN markUnsavedChanges(s.u) ELSE s.u)
        /\ Fault(storage)
        /\ Done(op, "done", BoolText(s.ret), s.raised)

\* a handler that returns after showMessage, before it has changed anything
Rejected == UNCHANGED vars

\* a handler whose confirm() was answered with no
Declined == UNCHANGED vars

\* the records in the arrays of state and, where they are other arrays, of DEFAULT
Held(f) == Len(state[f]) + (IF f \in shared THEN 0 ELSE Len(DEFAULT[f]))

HasRoom == Held("expenses") + Held("incomes") < MaxRecords

NewExpense(form, time, rnd) ==
    [ id       |-> generateId(time, rnd),
      category |-> form.category,
      amount   |-> toNumber(form.amount),
      desc     |-> IF Trim(form.desc) = "" THEN "Ingen beskrivning" ELSE Trim(form.desc),
      date     |-> time ]

\* variant: the amount test written numAmount < 0
onAddExpenseAcceptsZero(form) ==
    IF form.category = "" THEN Rejected
    ELSE IF toNumber(form.amount) < 0 THEN Rejected
    ELSE /\ HasRoom
         /\ \E time \in ClockReadings, rnd \in 1..MaxRand :
               /\ now' = time
               /\ Push("expenses", NewExpense(form, time, rnd))
         /\ \E storage \in Outcomes : AutoSave("onAddExpense", storage)

onAddExpense(form) ==
    IF form.category = "" THEN Rejected
    ELSE IF toNumber(form.amount) <= 0 THEN Rejected
    ELSE /\ HasRoom
         /\ \E time \in ClockReadings, rnd \in 1..MaxRand :
               /\ now' = time
               /\ Push("expenses", NewExpense(form, time, rnd))
         /\ \E storage \in Outcomes : AutoSave("onAddExpense", storage)

NewIncome(form, time, rnd) ==
    [ id     |-> generateId(time, rnd),
      source |-> form.source,
      amount |-> toNumber(form.amount),
      date   |-> time ]

onAddIncome(form) ==
    IF form.source = "" THEN Rejected
    ELSE IF toNumber(form.amount) <= 0 THEN Rejected
    ELSE /\ HasRoom
         /\ \E time \in ClockReadings, rnd \in 1..MaxRand :
               /\ now' = time
               /\ Push("incomes", NewIncome(form, time, rnd))
         /\ \E storage \in Outcomes : AutoSave("onAddIncome", storage)

deleteExpense(expenseId, confirmed) ==
    IF ~confirmed THEN Declined
    ELSE /\ Filter("expenses", expenseId)
         /\ \E storage \in Outcomes : AutoSave("deleteExpense", storage)
         /\ UNCHANGED now

deleteIncome(incomeId, confirmed) ==
    IF ~confirmed THEN Declined
    ELSE /\ Filter("incomes", incomeId)
         /\ \E storage \in Outcomes : AutoSave("deleteIncome", storage)
         /\ UNCHANGED now

\* variant: budgets is replaced by an object with the one key ({ [category]: value })
SetKeyOnly(b, category, value) == << << category, value >> >>

\* obj[category] = value on the budgets object: an existing key keeps its place, a
\* new key is added last
SetKey(b, category, value) ==
    IF \E i \in 1..Len(b) : b[i][1] = category
    THEN [ i \in 1..Len(b) |-> IF b[i][1] = category THEN << category, value >> ELSE b[i] ]
    ELSE Append(b, << category, value >>)

\* the categories of the budget rows the user edits
BudgetRows ==
    { state.expenseCategories[i] :
        i \in { j \in 1..Len(state.expenseCategories) : j <= MaxBudgetRows } }

\* the "input" listener renderBudgetTable puts on the budget cell of a category
onBudgetInput(category, value) ==
    LET b == SetKey(state.budgets, category, toNumber(value))
        st == [ state EXCEPT !.budgets = b ]
    IN  /\ category \in BudgetRows
        /\ state' = st
        /\ DEFAULT' = IF "budgets" \in shared THEN [ DEFAULT EXCEPT !.budgets = b ] ELSE DEFAULT
        /\ \E storage \in Outcomes :
              LET s == saveState(st, UI, localStorage, storage)
              IN  /\ localStorage' = s.slot
                  /\ SetUI(s.u)
                  /\ Fault(storage)
                  /\ Done("onBudgetInput", "done", BoolText(s.ret), s.raised)
        /\ UNCHANGED << shared, now >>

\* variant: the slot is overwritten with the default document instead of removed
removeItemOverwrites(slot) == Stringify(DefaultLiteral)

removeItem(slot) == NoItem

\* variant: the answer of confirm() is not looked at
resetStateUnasked(confirmed) ==
    /\ localStorage' = removeItem(localStorage)
    /\ state' = SpreadDefault(DEFAULT).state
    /\ shared' = SpreadDefault(DEFAULT).shared
    /\ Done("resetState", "done", "none", FALSE)
    /\ UNCHANGED << DEFAULT, statusVars, failures, now >>

resetState(confirmed) ==
    IF ~confirmed THEN Declined
    ELSE /\ localStorage' = removeItem(localStorage)
         /\ state' = SpreadDefault(DEFAULT).state
         /\ shared' = SpreadDefault(DEFAULT).shared
         /\ Done("resetState", "done", "none", FALSE)
         /\ UNCHANGED << DEFAULT, statusVars, failures, now >>

\* variant: after a save that failed the ledger is read back from the slot
onSaveClickReloads ==
    \E storage \in Outcomes :
        LET s == saveState(state, UI, localStorage, storage)
            r == loadState(s.slot, DEFAULT)
        IN  /\ localStorage' = s.slot
            /\ SetUI(s.u)
            /\ Fault(storage)
            /\ Done("onSaveClick", "done", BoolText(s.ret), s.raised)
            /\ state' = IF s.ret THEN state ELSE r.state
            /\ shared' = IF s.ret THEN shared ELSE r.shared
            /\ UNCHANGED << DEFAULT, now >>

\* onSaveClick and onSaveBudget: both call saveState and report its result
onSaveClick ==
    \E storage \in Outcomes :
        LET s == saveState(state, UI, localStorage, storage)
        IN  /\ localStorage' = s.slot
            /\ SetUI(s.u)
            /\ Fault(storage)
            /\ Done("onSaveClick", "done", BoolText(s.ret), s.raised)
            /\ UNCHANGED << ledgerVars, now >>

\* showReminder, with u the flag and timer as the timeout callback finds them
showReminder(u, shouldSave) ==
    IF shouldSave
    THEN \E storage \in Outcomes :
            LET s == saveState(state, u, localStorage, storage)
            IN  /\ localStorage' = s.slot
                /\ SetUI(markSavedChanges(s.u))
                /\ Fault(storage)
                /\ Done("showReminder", "accepted", BoolText(s.ret), s.raised)
    ELSE /\ SetUI(startReminderTimer(u))
         /\ Done("showReminder", "declined", "none", FALSE)
         /\ UNCHANGED << localStorage, failures >>

\* a pending timeout fires and runs the callback startReminderTimer gave it
TimerFires(t, shouldSave) ==
    LET u == [ UI EXCEPT !.timers = @ \ { t } ]
    IN  /\ t \in timers
        /\ IF hasUnsavedChanges
           THEN showReminder(u, shouldSave)
           ELSE /\ SetUI(u)
                /\ Done("reminderTimeout", "idle", "none", FALSE)
                /\ UNCHANGED << localStorage, failures >>
        /\ UNCHANGED << ledgerVars, now >>

Next ==
    \/ onStart
    \/ onLoad
    \/ \E form \in ExpenseForms : onAddExpense(form)
    \/ \E form \in IncomeForms : onAddIncome(form)
    \/ \E id \in Ids, confirmed \in BOOLEAN : deleteExpense(id, confirmed)
    \/ \E id \in Ids, confirmed \in BOOLEAN : deleteIncome(id, confirmed)
    \/ \E category \in BudgetRows, value \in BudgetInputs : onBudgetInput(category, value)
    \/ \E confirmed \in BOOLEAN : resetState(confirmed)
    \/ onSaveClick
    \/ \E t \in timers, shouldSave \in BOOLEAN : TimerFires(t, shouldSave)

Spec == Init /\ [][Next]_vars

\* ----- what the tables show -----
\* toNumber applied to an amount already held as a number
AmountToNumber(a) == toNumber(NumInput(a * 10))

RECURSIVE SumAmounts(_)
\* array.reduce((sum, r) => sum + toNumber(r.amount), 0)
SumAmounts(s) ==
    IF s = <<>> THEN 0
    ELSE SumAmounts(SubSeq(s, 1, Len(s) - 1)) + AmountToNumber(s[Len(s)].amount)

\* variant: the sum taken over all expenses, without the category filter
spentOfAll(category) == SumAmounts(state.expenses)

\* renderBudgetTable: spent of a row
spent(category) == SumAmounts(SelectSeq(state.expenses, LAMBDA exp : exp.category = category))

\* state.budgets[category] || 0
BudgetOrZero(category) ==
    IF \E i \in 1..Len(state.budgets) : state.budgets[i][1] = category
    THEN state.budgets[CHOOSE i \in 1..Len(state.budgets) : state.budgets[i][1] = category][2]
    ELSE 0

\* renderBudgetTable: remaining of a row
remaining(category) == AmountToNumber(BudgetOrZero(category)) - spent(category)

calculateTotalIncome == SumAmounts(state.incomes)

calculateTotalExpenses == SumAmounts(state.expenses)

\* updateTotals: remaining
totalRemaining == calculateTotalIncome - calculateTotalExpenses

\* ----- the list of recent expenses -----
\* sortedExpenses.slice(0, 10)
ShownLimit == 10

\* the longest expenses array the list is rendered for
MaxListed == 11

\* one step of a stable sort: e goes behind the records whose date is not older
InsertByDate(sorted, e) ==
    LET k == Cardinality({ i \in 1..Len(sorted) : sorted[i].date >= e.date })
    IN  SubSeq(sorted, 1, k) \o << e >> \o SubSeq(sorted, k + 1, Len(sorted))

RECURSIVE SortByDateDesc(_)
\* array.sort((a, b) => new Date(b.date) - new Date(a.date)); Array.prototype.sort
\* is stable
SortByDateDesc(s) ==
    IF s = <<>> THEN <<>>
    ELSE InsertByDate(SortByDateDesc(SubSeq(s, 1, Len(s) - 1)), s[Len(s)])

\* array.slice(0, n)
Slice(s, n) == SubSeq(s, 1, IF Len(s) < n THEN Len(s) ELSE n)

\* variant: state.expenses.sort(...) without the copy, which sorts the stored array
renderTxListInPlace ==
    /\ state' = [ state EXCEPT !.expenses = SortByDateDesc(@) ]
    /\ DEFAULT' = IF "expenses" \in shared
                  THEN [ DEFAULT EXCEPT !.expenses = SortByDateDesc(@) ] ELSE DEFAULT
    /\ Done("renderTxList", Slice(SortByDateDesc(state.expenses), ShownLimit), "none", FALSE)
    /\ UNCHANGED << shared, statusVars, localStorage, failures, now >>

\* renderTxList: the outcome is the sequence of expenses it puts on the page
renderTxList ==
    /\ Done("renderTxList", Slice(SortByDateDesc(state.expenses), ShownLimit), "none", FALSE)
    /\ UNCHANGED << ledgerVars, statusVars, localStorage, failures, now >>

\* the i-th expense of a stored list, dated d
ListedExpense(i, d) ==
    [ id |-> generateId(d, i), category |-> "Mat", amount |-> 100 * i, desc |-> "kaffe",
      date |-> d ]

\* the expenses arrays the list is rendered for: up to MaxListed records, dated in
\* any order
ListedExpenses ==
    UNION { { [ i \in 1..n |-> ListedExpense(i, d[i]) ] : d \in [ 1..n -> 0..MaxTime ] } :
              n \in 0..MaxListed }

\* the page after onLoad has read a document holding one of these arrays
ViewInit ==
    /\ DEFAULT = DefaultLiteral
    /\ \E s \in ListedExpenses : state = [ DefaultLiteral EXCEPT !.expenses = s ]
    /\ shared = {}
    /\ hasUnsavedChanges = FALSE
    /\ reminderTimer = 0
    /\ timers = {}
    /\ localStorage = Stringify(state)
    /\ failures = 0
    /\ now = MaxTime
    /\ last = [ op |-> "onLoad", outcome |-> "found", saved |-> "none", raised |-> FALSE ]

ViewNext == renderTxList

ViewSpec == ViewInit /\ [][ViewNext]_vars

\* a pending reminder timeout runs its callback (the callback leaves the ledger and
\* the clock alone; stated first, it settles most steps at once)
TimerStep ==
    /\ UNCHANGED << ledgerVars, now >>
    /\ \E t \in timers, shouldSave \in BOOLEAN : TimerFires(t, shouldSave)

\* the browser runs the callback of a timeout that stays pending: setTimeout's delay
\* is finite and nothing but clearTimeout takes a pending timeout away
FairSpec == Init /\ [][Next]_vars /\ WF_vars(TimerStep)

\* ----- properties -----
MutatingOps ==
    { "onAddExpense", "onAddIncome", "deleteExpense", "deleteIncome",
      "onBudgetInput", "resetState" }

\* C1: after a confirmed reset the ledger equals the default snapshot (built-in
\* category lists, no budgets, no expenses, no incomes), and a load that directly
\* follows the reset leaves it equal to that default.
C1_ResetGivesDefault ==
    [][ /\ resetState(TRUE) => state' = DefaultLiteral
        /\ (last.op = "resetState" /\ onLoad) => state' = DefaultLiteral ]_vars

\* C2: after a confirmed reset the slot is absent (not a stored default document),
\* and a load that follows with no save in between reports found = false.
C2_ResetRemovesSlot ==
    [][ /\ resetState(TRUE) => localStorage' = NoItem
        /\ last'.op = "resetState" => localStorage' = NoItem
        /\ (last.op = "resetState" /\ onLoad) => last'.outcome = "notfound" ]_vars

\* a reset has removed a document an earlier automatic save had stored
C2_Witness ==
    /\ last.op = "resetState"
    /\ localStorage = NoItem
    /\ hasUnsavedChanges
    /\ Len(state.expenses) > 0

\* C3: when a save has returned true and load is called next, load reports
\* found = true and the ledger it builds equals, in all five fields, the ledger
\* that was saved.
C3_RoundTrip ==
    [][ (last.saved = "true" /\ onLoad) =>
            /\ last'.outcome = "found"
            /\ \A f \in FieldNames : state'[f] = state[f] ]_vars

\* a load has rebuilt, from a document this program wrote, a ledger with an
\* expense, an income and a budget whose amount has one decimal
C3_Witness ==
    /\ last.op = "onLoad"
    /\ last.outcome = "found"
    /\ shared = {}
    /\ localStorage = Stringify(state)
    /\ Len(state.expenses) > 0
    /\ Len(state.incomes) > 0
    /\ \E i \in 1..Len(state.budgets) : state.budgets[i][2] % 100 = 50

\* C4: save returns true only if reading the slot back yields the text that was
\* written, so right after a save that returned true the slot holds the
\* serialization of the ledger; on a write error or a read-back mismatch it
\* returns false; it never throws to its caller.
C4_SaveVerified ==
    /\ last.saved = "true" => localStorage = Stringify(state)
    /\ ~last.raised
    /\ \A storage \in StorageOutcomes :
          LET r == saveState(state, UI, localStorage, storage)
          IN  /\ ~r.raised
              /\ r.ret => r.slot = Stringify(state)
              /\ storage = "quota" => ~r.ret
              /\ (storage = "lost" /\ localStorage # Stringify(state)) => ~r.ret

\* a save has returned true in a session in which an earlier write had failed
C4_Witness ==
    /\ last.op = "onSaveClick"
    /\ last.saved = "true"
    /\ failures > 0
    /\ Len(state.expenses) > 0

\* C5: when the slot is absent or holds no parseable object, load reports
\* found = false and leaves the ledger equal to the default snapshot, whatever
\* was done before.
C5_LoadFallsBackToDefault ==
    [][ (localStorage.kind # "object" /\ onLoad) =>
            /\ last'.outcome = "notfound"
            /\ ~last'.raised
            /\ state' = DefaultLiteral ]_vars

\* C6 as stated: when the slot holds an object with only some of the five fields,
\* load reports found = true, each field present in the stored object takes the
\* stored value and each absent field takes its default.
C6_PresentFieldsTakeStoredValue ==
    [][ (localStorage.kind = "object" /\ onLoad) =>
            /\ last'.outcome = "found"
            /\ \A f \in FieldNames :
                  IF f \in DOMAIN localStorage.doc
                  THEN JVal(FieldToText(f, state'[f])) = localStorage.doc[f]
                  ELSE state'[f] = DefaultLiteral[f] ]_vars

\* C6: when the slot holds an object, load reports found = true and builds a ledger
\* with all five fields: each field stored with a truthy value takes the stored
\* value, and each field that is absent or stored as null takes its default (the
\* built-in list for the two category fields, empty for budgets, expenses, incomes).
C6_TruthyFieldsTakeStoredValue ==
    [][ (localStorage.kind = "object" /\ onLoad) =>
            /\ last'.outcome = "found"
            /\ DOMAIN state' = FieldNames
            /\ \A f \in FieldNames :
                  IF f \in DOMAIN localStorage.doc /\ ~localStorage.doc[f].null
                  THEN JVal(FieldToText(f, state'[f])) = localStorage.doc[f]
                  ELSE state'[f] = DefaultLiteral[f] ]_vars

\* a load has merged the partial document while DEFAULT's own incomes array was
\* no longer empty
C6_Witness ==
    /\ last.op = "onLoad"
    /\ last.outcome = "found"
    /\ localStorage = ObjectText(PartialDoc)
    /\ state.expenses = << StoredExpense >>
    /\ state.budgets = StoredBudgets
    /\ state.incomes = <<>>
    /\ DEFAULT.incomes # <<>>

\* the amount r (in cents) is the input m (in thousandths) rounded to 2 decimals
IsRoundedTo2(r, m) == 10 * r - 5 <= m /\ m < 10 * r + 5

\* [f] got one record more, at the end, and nothing else of the ledger changed
AppendedOne(f, m) ==
    /\ Len(state'[f]) = Len(state[f]) + 1
    /\ SubSeq(state'[f], 1, Len(state[f])) = state[f]
    /\ IsRoundedTo2(state'[f][Len(state'[f])].amount, m)
    /\ \A g \in FieldNames \ { f } : state'[g] = state[g]

\* C7: every add-expense or add-income call with a non-empty category/source and an
\* amount that is greater than 0 after coercion makes its collection one longer,
\* appends the new record at the end with the amount equal to the input rounded to
\* 2 decimals, and leaves the earlier records, the other collection, budgets and
\* both category lists unchanged.
C7_ValidAddAppendsOne ==
    [][ /\ \A form \in ExpenseForms :
              (form.category # "" /\ toNumber(form.amount) > 0 /\ onAddExpense(form))
                  => (AppendedOne("expenses", form.amount.m)
                      /\ state'.expenses[Len(state'.expenses)].category = form.category)
        /\ \A form \in IncomeForms :
              (form.source # "" /\ toNumber(form.amount) > 0 /\ onAddIncome(form))
                  => (AppendedOne("incomes", form.amount.m)
                      /\ state'.incomes[Len(state'.incomes)].source = form.source) ]_vars

\* an expense of 120.555 has been added after the stored one, as 120.56
C7_Witness ==
    /\ last.op = "onAddExpense"
    /\ Len(state.expenses) = 2
    /\ state.expenses[1] = StoredExpense
    /\ state.expenses[2].amount = 12056
    /\ state.expenses[2].category = "Hyra"

\* C8: an add-expense or add-income call with an empty category/source, or with an
\* amount that coerces to a value <= 0 (non-numeric input coerces to 0), changes
\* nothing: ledger, slot, saved/unsaved flag and reminder timer are as before.
C8_InvalidAddChangesNothing ==
    [][ /\ \A form \in ExpenseForms :
              ((form.category = "" \/ toNumber(form.amount) <= 0) /\ onAddExpense(form))
                  => UNCHANGED << state, localStorage, statusVars >>
        /\ \A form \in IncomeForms :
              ((form.source = "" \/ toNumber(form.amount) <= 0) /\ onAddIncome(form))
                  => UNCHANGED << state, localStorage, statusVars >>
        /\ \E form \in ExpenseForms : form.category = ""
        /\ \E form \in ExpenseForms : form.category # "" /\ form.amount.k = "text"
        /\ \E form \in ExpenseForms : form.amount.k = "num" /\ form.amount.m < 0
        /\ \E form \in ExpenseForms :
              form.amount.k = "num" /\ form.amount.m > 0 /\ toNumber(form.amount) = 0
        /\ \E form \in IncomeForms : form.source = ""
        /\ \E form \in IncomeForms : form.source # "" /\ form.amount.k = "empty" ]_vars

\* a state with records, a stored document, unsaved changes and an armed reminder,
\* in which the rejected calls (they have no guard) are among the next steps
C8_Witness ==
    /\ hasUnsavedChanges
    /\ reminderTimer # 0
    /\ reminderTimer \in timers
    /\ Len(state.expenses) > 0
    /\ localStorage.kind = "object"
    /\ last.op = "onAddIncome"

\* [f] lost exactly the records with this id and nothing else of the ledger changed
Removed(f, id) ==
    /\ state'[f] = SelectSeq(state[f], LAMBDA r : r.id # id)
    /\ (\A i \in 1..Len(state[f]) : state[f][i].id # id) => state'[f] = state[f]
    /\ \A i \in 1..Len(state'[f]) : state'[f][i].id # id
    /\ \A g \in FieldNames \ { f } : state'[g] = state[g]

\* C9: a confirmed delete removes from its collection the record whose id matches
\* and keeps the others in their order; for an id that matches no record the
\* collection is unchanged, so a repeated delete changes nothing more; the other
\* collection, budgets and category lists are unchanged.
C9_DeleteRemovesById ==
    [][ \A id \in Ids :
           /\ (last'.op = "deleteExpense" /\ deleteExpense(id, TRUE))
                 => Removed("expenses", id)
           /\ (last'.op = "deleteIncome" /\ deleteIncome(id, TRUE))
                 => Removed("incomes", id) ]_vars

\* the second of two expenses has been deleted: DEFAULT still holds the array with
\* both, state the new array with the first only
C9_Witness ==
    /\ last.op = "deleteExpense"
    /\ "expenses" \notin shared
    /\ Len(DEFAULT.expenses) = 2
    /\ DEFAULT.expenses[1].id # DEFAULT.expenses[2].id
    /\ state.expenses = << DEFAULT.expenses[1] >>

\* C10: after every mutating operation (add or delete of an expense or income, set
\* budget, reset) the flag hasUnsavedChanges is true, whether or not the automatic
\* save succeeded, and it stays true until a save succeeds.
C10_DirtyAfterMutation ==
    [][ /\ last'.op \in MutatingOps => hasUnsavedChanges'
        /\ (hasUnsavedChanges /\ ~hasUnsavedChanges') => last'.saved = "true" ]_vars

\* C11: hasUnsavedChanges goes from true to false only through a save that returned
\* true; when the reminder prompt is accepted a save is attempted and the flag
\* becomes false only if that save succeeded; when it is declined the flag stays
\* true and the reminder timer is armed again.
C11_SavedOnlyBySuccessfulSave ==
    [][ /\ (hasUnsavedChanges /\ ~hasUnsavedChanges') => last'.saved = "true"
        /\ (last'.op = "showReminder" /\ last'.outcome = "accepted")
              => (last'.saved # "none" /\ (~hasUnsavedChanges' => last'.saved = "true"))
        /\ (last'.op = "showReminder" /\ last'.outcome = "declined")
              => (hasUnsavedChanges' /\ reminderTimer' # 0 /\ reminderTimer' \in timers') ]_vars

\* C12: the reminder timer is cancel-and-replace: after every mutating operation
\* (add or delete of an expense or income, set budget, reset) the pending timer has
\* been cancelled and a new one is armed, after every successful save no timer is
\* pending, and at no time is more than one reminder timer pending.
C12_CancelAndReplace ==
    /\ Cardinality(timers) <= 1
    /\ last.op \in MutatingOps => (reminderTimer # 0 /\ timers = { reminderTimer })
    /\ (last.op = "onSaveClick" /\ last.saved = "true") => timers = {}

\* C13: once a handler has left hasUnsavedChanges true, the reminder prompt is
\* eventually shown unless a save clears the flag first (the armed timeout being
\* assumed to run); and the prompt is shown only in a state where the flag is true.
C13_ReminderEventuallyShown ==
    /\ (hasUnsavedChanges /\ last.op # "showReminder")
           ~> (last.op = "showReminder" \/ ~hasUnsavedChanges)
    /\ [][ last'.op = "showReminder" => hasUnsavedChanges ]_vars

\* the prompt has been shown and declined: the flag is still set and a timeout is
\* pending again
C13_Witness ==
    /\ last.op = "showReminder"
    /\ last.outcome = "declined"
    /\ hasUnsavedChanges
    /\ timers # {}
    /\ Len(state.incomes) > 0

\* the ledger fields other than f are as before
OthersSame(f) == \A g \in FieldNames \ { f } : state'[g] = state[g]

\* C14: a save that returns false changes nothing in the ledger: after a failed
\* manual or reminder save the five fields are as before, and after an add, delete
\* or budget input whose automatic save failed they are as the handler had made
\* them before the save (the added record is there, the removed one is gone).
C14_FailedSaveKeepsLedger ==
    [][ last'.saved = "false" =>
          CASE last'.op \in { "onSaveClick", "showReminder" } -> state' = state
            [] last'.op \in { "onAddExpense", "onAddIncome" } ->
                 LET f == IF last'.op = "onAddExpense" THEN "expenses" ELSE "incomes"
                 IN  /\ Len(state'[f]) = Len(state[f]) + 1
                     /\ SubSeq(state'[f], 1, Len(state[f])) = state[f]
                     /\ OthersSame(f)
            [] last'.op \in { "deleteExpense", "deleteIncome" } ->
                 LET f == IF last'.op = "deleteExpense" THEN "expenses" ELSE "incomes"
                 IN  /\ \E id \in Ids : state'[f] = SelectSeq(state[f], LAMBDA r : r.id # id)
                     /\ OthersSame(f)
            [] last'.op = "onBudgetInput" ->
                 /\ \E category \in BudgetRows, value \in BudgetInputs :
                       state'.budgets = SetKey(state.budgets, category, toNumber(value))
                 /\ OthersSame("budgets")
            [] OTHER -> FALSE ]_vars

\* an add whose automatic save failed: the record is in the ledger, not in the slot
C14_Witness ==
    /\ last.op = "onAddExpense"
    /\ last.saved = "false"
    /\ Len(state.expenses) = 2
    /\ localStorage.kind = "object"
    /\ localStorage # Stringify(state)

\* the ids of the records of a sequence are pairwise distinct
DistinctIds(s) == \A i, j \in 1..Len(s) : i # j => s[i].id # s[j].id

\* C15: in every reachable state the ids in expenses are pairwise distinct and the
\* ids in incomes are pairwise distinct, and a new record never gets the id of a
\* record deleted earlier from the same collection (the array DEFAULT keeps after a
\* delete still holds the deleted records).
C15_IdsUnique ==
    /\ DistinctIds(state.expenses)
    /\ DistinctIds(state.incomes)
    /\ "expenses" \notin shared =>
          \A i \in 1..Len(state.expenses), j \in 1..Len(DEFAULT.expenses) :
              state.expenses[i].id = DEFAULT.expenses[j].id
                  => state.expenses[i] = DEFAULT.expenses[j]

CategoryFields == { "expenseCategories", "incomeCategories" }

\* C16 as stated: in every reachable state expenseCategories and incomeCategories
\* equal the built-in lists.
C16_CategoriesAreBuiltIn ==
    /\ state.expenseCategories = BuiltInExpenseCategories
    /\ state.incomeCategories = BuiltInIncomeCategories

\* C16: no add, delete, budget input or save changes a category list; a reset, and
\* a load that finds no list in the slot, set it to the built-in list; a load that
\* finds a list in the stored document takes that list as it is.  So each list is
\* the built-in one unless a stored document with another list has been loaded.
C16_CategoriesChangeOnlyByLoad ==
    [][ \A f \in CategoryFields :
          /\ DEFAULT'[f] = DefaultLiteral[f]
          /\ \/ state'[f] = state[f]
             \/ last'.op = "resetState" /\ state'[f] = DefaultLiteral[f]
             \/ /\ last'.op = "onLoad"
                /\ state'[f] = IF /\ localStorage.kind = "object"
                                  /\ f \in DOMAIN localStorage.doc
                                  /\ ~localStorage.doc[f].null
                               THEN localStorage.doc[f].v
                               ELSE DefaultLiteral[f]
          /\ state'[f] # DefaultLiteral[f]
                => (f = "incomeCategories" /\ state'[f] = StoredIncomeCategories) ]_vars

\* the list of the stored document has been loaded, kept through an add and
\* written back to the slot
C16_Witness ==
    /\ last.op = "onAddIncome"
    /\ state.incomeCategories = StoredIncomeCategories
    /\ state.expenseCategories = BuiltInExpenseCategories
    /\ localStorage = Stringify(state)

\* the value the budgets object holds for a category, 0 when it has no such key
BudgetOf(b, category) ==
    IF \E i \in 1..Len(b) : b[i][1] = category
    THEN b[CHOOSE i \in 1..Len(b) : b[i][1] = category][2]
    ELSE 0

\* the categories that have an entry in the budgets object
BudgetKeys(b) == { b[i][1] : i \in 1..Len(b) }

\* C17: a budget input for a category overwrites or creates the entry of that one
\* category with the coerced amount (the input rounded to 2 decimals, 0 for an empty
\* input), leaves every other budget entry, expenses, incomes and both category
\* lists unchanged, and is followed by a save attempt.
C17_SetBudgetSetsOneEntry ==
    [][ \A category \in BudgetRows, value \in BudgetInputs :
          (last'.op = "onBudgetInput" /\ onBudgetInput(category, value)) =>
              /\ BudgetKeys(state'.budgets) = BudgetKeys(state.budgets) \cup { category }
              /\ \A i \in 1..Len(state'.budgets) :
                    /\ Cardinality({ j \in 1..Len(state'.budgets) :
                                       state'.budgets[j][1] = state'.budgets[i][1] }) = 1
              /\ IF value.k = "num"
                 THEN IsRoundedTo2(BudgetOf(state'.budgets, category), value.m)
                 ELSE BudgetOf(state'.budgets, category) = 0
              /\ \A c \in BudgetKeys(state.budgets) \ { category } :
                    BudgetOf(state'.budgets, c) = BudgetOf(state.budgets, c)
              /\ OthersSame("budgets")
              /\ last'.saved \in { "true", "false" } ]_vars

\* the budget of "Hyra" has been set to 250.50 next to the stored budget of "Mat"
C17_Witness ==
    /\ last.op = "onBudgetInput"
    /\ BudgetKeys(state.budgets) = { "Mat", "Hyra" }
    /\ BudgetOf(state.budgets, "Hyra") = 25050
    /\ BudgetOf(state.budgets, "Mat") = 3000
    /\ Len(state.expenses) > 0

RECURSIVE SumAt(_, _)
\* the sum of the amounts of the records of s at the positions in S
SumAt(S, s) ==
    IF S = {} THEN 0
    ELSE LET i == CHOOSE i \in S : TRUE
         IN  s[i].amount + SumAt(S \ { i }, s)

\* the categories of the table's rows and of the expenses
AllCategories ==
    { state.expenseCategories[i] : i \in 1..Len(state.expenseCategories) }
        \cup { state.expenses[i].category : i \in 1..Len(state.expenses) }

\* C18: for every category the remaining amount equals its budget (0 without an
\* entry) minus the sum of the amounts of exactly the expenses of that category,
\* and the net remaining equals the sum of all income amounts minus the sum of all
\* expense amounts; both may be negative.
C18_RemainingAmounts ==
    /\ \A category \in AllCategories :
          remaining(category) =
              BudgetOf(state.budgets, category)
                  - SumAt({ i \in 1..Len(state.expenses) :
                              state.expenses[i].category = category }, state.expenses)
    /\ totalRemaining =
          SumAt(1..Len(state.incomes), state.incomes)
              - SumAt(1..Len(state.expenses), state.expenses)

\* expenses of two categories, "Mat" overspent (30.00 - 49.50) and no income
C18_Witness ==
    /\ Len(state.expenses) = 2
    /\ state.expenses[1].category # state.expenses[2].category
    /\ remaining("Mat") = -1950
    /\ remaining("Hyra") = 25050 - 12056
    /\ totalRemaining = -(4950 + 12056)

\* the position in s of the record v (ids are distinct in the listed arrays)
PositionIn(s, v) == CHOOSE i \in 1..Len(s) : s[i].id = v.id

\* a comes before b in the list: later date, or same date and earlier position
Before(s, a, b) ==
    \/ a.date > b.date
    \/ a.date = b.date /\ PositionIn(s, a) < PositionIn(s, b)

\* C19: the list of recent expenses holds at most 10 expenses; they are expenses of
\* the ledger, those with the latest dates; they are listed latest first, with equal
\* dates in insertion order; and building the list leaves the stored sequence as it
\* was.
C19_RecentExpenses ==
    [][ last'.op = "renderTxList" =>
          LET s == state.expenses
              view == last'.outcome
              shown == { PositionIn(s, view[k]) : k \in 1..Len(view) }
          IN  /\ state' = state
              /\ Len(view) <= ShownLimit
              /\ Len(view) = IF Len(s) < ShownLimit THEN Len(s) ELSE ShownLimit
              /\ \A k \in 1..Len(view) : \E i \in 1..Len(s) : s[i] = view[k]
              /\ Cardinality(shown) = Len(view)
              /\ \A k \in 1..(Len(view) - 1) : Before(s, view[k], view[k + 1])
              /\ \A k \in 1..Len(view), j \in (1..Len(s)) \ shown :
                    Before(s, view[k], s[j]) ]_vars

\* eleven expenses, not stored in date order and with equal dates among them, of
\* which ten are listed and an old one is left out
C19_Witness ==
    /\ last.op = "renderTxList"
    /\ Len(state.expenses) = MaxListed
    /\ Len(last.outcome) = ShownLimit
    /\ state.expenses[1].date < state.expenses[2].date
    /\ state.expenses[2].date = state.expenses[3].date
    /\ last.outcome[1] = state.expenses[2]
    /\ last.outcome[2] = state.expenses[3]
    /\ \A k \in 1..ShownLimit : last.outcome[k] # state.expenses[MaxListed]

\* C20: a delete of an expense or income, or a reset, whose confirm() is answered
\* with no changes nothing: ledger, slot, saved/unsaved flag and reminder timer are
\* as before, and no save is attempted (no write is tried, no result is reported).
C20_DeclinedChangesNothing ==
    [][ (\/ \E id \in Ids : deleteExpense(id, FALSE) \/ deleteIncome(id, FALSE)
         \/ resetState(FALSE))
            => UNCHANGED << state, DEFAULT, localStorage, statusVars, failures, last >> ]_vars

\* a state with an expense and an income, stored, flagged unsaved and with the
\* reminder armed, in which the declined calls (they have no guard) are among the
\* next steps
C20_Witness ==
    /\ Len(state.expenses) > 0
    /\ Len(state.incomes) > 0
    /\ localStorage = Stringify(state)
    /\ hasUnsavedChanges
    /\ reminderTimer \in timers

\* C21: between handler executions a reminder timeout is pending exactly when
\* hasUnsavedChanges is true: with the flag set, reminderTimer holds the one pending
\* timeout; with the flag clear, no timeout is pending.
C21_TimerPendingIffUnsaved ==
    /\ hasUnsavedChanges => (reminderTimer # 0 /\ timers = { reminderTimer })
    /\ ~hasUnsavedChanges => (timers = {} /\ reminderTimer \notin timers)

\* a manual save has succeeded after records were added and removed: the flag is
\* clear and no timeout is pending
C21_Witness ==
    /\ last.op = "onSaveClick"
    /\ last.saved = "true"
    /\ ~hasUnsavedChanges
    /\ timers = {}
    /\ "expenses" \notin shared
    /\ Len(DEFAULT.expenses) > Len(state.expenses)

\* C22: in every state reached by an add, a delete or a budget input, if the status
\* is saved (hasUnsavedChanges false and no reminder armed) then the slot holds
\* exactly the serialization of the ledger in memory.
C22_SavedMeansStored ==
    (/\ last.op \in { "onAddExpense", "onAddIncome", "deleteExpense", "deleteIncome",
                      "onBudgetInput" }
     /\ ~hasUnsavedChanges
     /\ timers = {})
        => localStorage = Stringify(state)

====
